---- MODULE Spec2Model ----
(***************************************************************************)
(* Model of the ai-media-transcriber-assistant server (src/src/index.js)    *)
(* and of its single-page front end (src/unnamed/part_000).                *)
(*                                                                         *)
(* Part 1 models POST /api/transcribe for NumReqs concurrent requests that *)
(* share the tmp directory.  An async handler is cut at its awaits: each   *)
(* action is one continuation, run to the next await or to the end of the  *)
(* handler (catch and finally included, since they run synchronously).     *)
(* Part 2 models the page's click handlers together with POST /api/qa,     *)
(* Part 3 POST /api/export and the page's download button.                 *)
(***************************************************************************)
EXTENDS Integers, Sequences, FiniteSets, TLC

\* ----------------------------------------------------------------- bounds
NumReqs == 2

Reqs == 1..NumReqs

\* ------------------------------------------------------------ basic values
\* A path or name is a sequence of tokens; the null / undefined path is <<>>.
Null == <<>>

\* `${id}.mp4`, `${id}.wav`, ...: the uuid token, a dot, the extension.
Name(uuid, ext) == <<uuid, ".", ext>>

\* String.prototype.startsWith on token sequences.
StartsWith(f, prefix) ==
    /\ Len(prefix) <= Len(f)
    /\ SubSeq(f, 1, Len(prefix)) = prefix

\* request bodies: youtubeUrl absent/empty, a valid watch URL, something else
UrlInputs == {"", "https://youtu.be/abc", "not a url"}

\* ytdl.validateURL
ValidateURL(url) == url = "https://youtu.be/abc"

\* the requests sent: the body's youtubeUrl, and the uploaded file if any
\* with path.extname(file.originalname), "" or a dot and an extension.  An
\* upload is sent alone (with or without extension), or together with a URL
\* that is rejected: the URL branch is taken and the upload is only cleaned up.
Inputs ==
    {[url |-> u, hasFile |-> FALSE, ext |-> <<>>] : u \in UrlInputs}
    \cup {[url |-> u, hasFile |-> TRUE, ext |-> <<".", "mp3">>] : u \in {"", "not a url"}}
    \cup {[url |-> "", hasFile |-> TRUE, ext |-> <<>>]}

\* messages of the errors the external libraries reject with
PrimaryErrs == {<<"Could not extract functions">>, <<"Status code: 410">>}
YtdlpErrs == {<<"yt-dlp exited with code 1">>}
ConvertErrs == {<<"ffmpeg exited with code 1">>}
GroqErrs == {<<"401 invalid api key">>}

\* RegExp.prototype.test(msg) for a pattern that is one token of the message
Test(pattern, msg) == \E i \in 1..Len(msg) : msg[i] = pattern

VARIABLES
    ytdlp,          \* whether require("youtube-dl-exec") succeeded
    tmp,            \* TMP_DIR: file name -> [creator, kind, data]
    handler,        \* per request: the locals of the /api/transcribe handler
    res,            \* per request: the responses sent, in order
    log,            \* per request: history of the stages run (ghost)
    touched,        \* per request: creators of the files it selected (ghost)
    transcriptEl,   \* the page's transcript textarea: its value, its skeleton class
    loaderHidden,   \* whether the page's loader carries the class "hidden"
    fetches,        \* per page slot: the click handler awaiting its fetch, if any
    qa,             \* per client: its exchange with POST /api/qa
    export          \* the exchange with POST /api/export

\* the server's /api/transcribe state, and the rest
tvars == <<ytdlp, tmp, handler, res, log, touched>>

pvars == <<transcriptEl, loaderHidden, fetches, qa, export>>

vars == <<ytdlp, tmp, handler, res, log, touched,
          transcriptEl, loaderHidden, fetches, qa, export>>

\* ---------------------------------------------------------------- helpers
Files(dir) == DOMAIN dir

\* a file is written (created or overwritten) in the directory
WriteFile(dir, name, content) ==
    [f \in Files(dir) \cup {name} |-> IF f = name THEN content ELSE dir[f]]

RemoveFile(dir, name) == [f \in Files(dir) \ {name} |-> dir[f]]

\* uuidv4(): the k-th uuid drawn for request r (multer's, then the handler's);
\* no two calls return the same value
Uuid(r, k) == 2 * (r - 1) + k

\* multer.diskStorage filename: `${uuidv4()}${ext || ".wav"}`
UploadName(uuid, ext) == <<uuid>> \o (IF ext = <<>> THEN <<".", "wav">> ELSE ext)

\* safeUnlink(filePath); throws says whether fs.unlinkSync throws (caught)
SafeUnlink(dir, filePath, throws) ==
    IF filePath = Null THEN dir
    ELSE IF filePath \in Files(dir) /\ ~throws THEN RemoveFile(dir, filePath)
    ELSE dir

\* the finally block of the handler; wavThrows and upThrows say whether
\* fs.unlinkSync throws on that file (safeUnlink catches and logs it)
Finally(dir, h, wavThrows, upThrows) ==
    SafeUnlink(SafeUnlink(SafeUnlink(dir, h.mp4Path, FALSE),
                          h.wavPath, wavThrows),
               h.uploadedFilePath, upThrows)

\* the files the finally block passes to safeUnlink
CleanupTargets(h) == {h.mp4Path, h.wavPath, h.uploadedFilePath} \ {Null}

\* the catch block of the handler: the 500 response for err.message = details
ErrorResponse(details) ==
    [status |-> 500, error |-> "Transcription failed", details |-> details,
     hint |-> Test("ytdl-core failed", details), text |-> Null]

Creators(dir, names) == {dir[f].creator : f \in names \cap Files(dir)}

\* lines 170-176: the locals of a handler invocation before its first statement
Locals(pc) ==
    [pc |-> pc, youtubeUrl |-> "", uploadedFilePath |-> Null,
     workingInputPath |-> Null, mp4Path |-> Null, wavPath |-> Null, id |-> 0]

\* no handler has finished without its invocation having been closed
NoneDone == \A q \in Reqs : handler[q].pc # "done"

TranscribeInit ==
    /\ ytdlp \in BOOLEAN
    /\ tmp = << >>
    /\ handler = [r \in Reqs |-> Locals("idle")]
    /\ res = [r \in Reqs |-> <<>>]
    /\ log = [r \in Reqs |-> <<>>]
    /\ touched = [r \in Reqs |-> {}]

\* The handler of r leaves its try block having sent `responses` (from the
\* try block or from the catch block), with locals h and directory dir: the
\* finally block runs and the handler is over.
Finish(r, h, dir, responses, events) ==
    \E wavThrows, upThrows \in BOOLEAN :
        /\ wavThrows => (h.wavPath # Null /\ h.wavPath \in Files(dir))
        /\ upThrows => (h.uploadedFilePath # Null /\ h.uploadedFilePath \in Files(dir))
        /\ res' = [res EXCEPT ![r] = @ \o responses]
        /\ tmp' = Finally(dir, h, wavThrows, upThrows)
        /\ handler' = [handler EXCEPT ![r] = [h EXCEPT !.pc = "done"]]
        /\ log' = [log EXCEPT ![r] = @ \o events
                        \o (IF wavThrows \/ upThrows THEN <<"unlinkError">> ELSE <<>>)
                        \o <<"cleanup">>]
        /\ touched' = [touched EXCEPT ![r] = @ \cup Creators(dir, CleanupTargets(h))]

\* mutant of Throw: the catch block logs the error and sends nothing
Throw_Silent(r, h, dir, msg, events) ==
    Finish(r, h, dir, <<>>, events)

\* an error with message msg is thrown inside the try block
Throw(r, h, dir, msg, events) ==
    Finish(r, h, dir, <<ErrorResponse(msg)>>, events \o <<"respond500">>)

\* lines 187-189: wavPath is set and convertToWav is started on `input`
StartConvert(r, h, dir, input, events) ==
    /\ handler' = [handler EXCEPT ![r] =
                      [h EXCEPT !.workingInputPath = input,
                                !.wavPath = Name(h.id, "wav"),
                                !.pc = "convert"]]
    /\ tmp' = dir
    /\ log' = [log EXCEPT ![r] = @ \o events \o <<"convert">>]
    /\ touched' = [touched EXCEPT ![r] = @ \cup Creators(dir, {input})]
    /\ UNCHANGED res

\* A request arrives: multer stores the upload, then the handler runs to its
\* first await (or to its end).
Receive(r) ==
    /\ NoneDone
    /\ handler[r].pc = "idle"
    /\ \A q \in Reqs : q < r => handler[q].pc # "idle"
    /\ \E in \in Inputs :
           LET url == in.url
               up == IF in.hasFile THEN UploadName(Uuid(r, 1), in.ext) ELSE Null
               id == Uuid(r, 2)
               dir == IF in.hasFile
                      THEN WriteFile(tmp, up, [creator |-> r, kind |-> "upload", data |-> r])
                      ELSE tmp
               h == [handler[r] EXCEPT !.youtubeUrl = url,
                                       !.uploadedFilePath = up,
                                       !.id = id]
           IN IF url # ""
                 THEN IF ~ValidateURL(url)
                      THEN Throw(r, h, dir, <<"Invalid YouTube URL">>,
                                 <<"download", "download_fail">>)
                      ELSE /\ handler' = [handler EXCEPT ![r] = [h EXCEPT !.pc = "getInfo"]]
                           /\ tmp' = dir
                           /\ log' = [log EXCEPT ![r] = @ \o <<"download", "primary">>]
                           /\ UNCHANGED <<res, touched>>
                 ELSE IF up # Null
                 THEN StartConvert(r, h, dir, up, <<"input_ok">>)
                 ELSE Finish(r, h, dir,
                             <<[status |-> 400,
                                error |-> "Provide a YouTube URL or upload an audio file.",
                                details |-> Null, hint |-> FALSE, text |-> Null]>>,
                             <<"respond400">>)
    /\ UNCHANGED <<ytdlp, pvars>>

\* line 105: /Could not extract functions/i.test(msg)
DecipherIssue(msg) == Test("Could not extract functions", msg)

\* mutant of CatchDecision: a decipher issue goes to the fallback without
\* looking at whether youtube-dl-exec was loaded
CatchDecision_Unchecked(msg, fallback) ==
    IF DecipherIssue(msg) \/ fallback THEN "fallback" ELSE "bubble"

\* lines 103-139: what the catch of the primary attempt does with msg
CatchDecision(msg, fallback) ==
    IF ~DecipherIssue(msg) /\ ~fallback THEN "bubble"
    ELSE IF fallback THEN "fallback"
    ELSE "upgrade"

\* the catch block of the primary attempt
PrimaryCatch(r, h, dir, msg) ==
    LET failed == IF DecipherIssue(msg) THEN "primary_fail_decipher"
                  ELSE "primary_fail_other"
        d == CatchDecision(msg, ytdlp)
    IN  IF d = "bubble"
        THEN Throw(r, h, dir, <<"YouTube download failed: ">> \o msg,
                   <<failed, "download_fail">>)
        ELSE IF d = "fallback"
        THEN /\ handler' = [handler EXCEPT ![r] = [h EXCEPT !.pc = "ytdlp"]]
             /\ tmp' = dir
             /\ log' = [log EXCEPT ![r] = @ \o <<failed, "ytdlp">>]
             /\ UNCHANGED <<res, touched>>
        ELSE Throw(r, h, dir,
                   <<"ytdl-core failed", " to download (signature change). Install/upgrade ytdl-core or add youtube-dl-exec (yt-dlp) as fallback.">>,
                   <<failed, "download_fail">>)

\* await ytdl.getInfo(url) settles; on success the write stream is opened
GetInfoDone(r) ==
    /\ NoneDone
    /\ handler[r].pc = "getInfo"
    /\ \/ /\ handler' = [handler EXCEPT ![r].pc = "stream"]
          /\ tmp' = WriteFile(tmp, Name(handler[r].id, "mp4"),
                              [creator |-> r, kind |-> "primary", data |-> r])
          /\ UNCHANGED <<res, log, touched>>
       \/ \E msg \in PrimaryErrs : PrimaryCatch(r, handler[r], tmp, msg)
    /\ UNCHANGED <<ytdlp, pvars>>

\* the promise around stream.pipe(writeStream) settles
StreamDone(r) ==
    /\ NoneDone
    /\ handler[r].pc = "stream"
    /\ \/ LET mp4 == Name(handler[r].id, "mp4")
          IN StartConvert(r, handler[r],
                          WriteFile(tmp, mp4, [creator |-> r, kind |-> "primary", data |-> r]),
                          mp4, <<"primary_ok", "download_ok">>)
       \/ \E msg \in PrimaryErrs : PrimaryCatch(r, handler[r], tmp, msg)
    /\ UNCHANGED <<ytdlp, pvars>>

\* mutant of Candidates: the output is looked up by its extension only
Candidates_ByExt(dir, id) == {f \in Files(dir) : f[Len(f)] = "mp3"}

\* lines 127-128: the names files.find((f) => f.startsWith(`${id}.`)) can
\* return; readdirSync's order is the directory's, so any match can be first
Candidates(dir, id) == {f \in Files(dir) : StartsWith(f, <<id, ".">>)}

\* await ytdlp(url, {output: `${id}.%(ext)s`, audioFormat: "mp3"}) settles
YtdlpDone(r) ==
    /\ NoneDone
    /\ handler[r].pc = "ytdlp"
    /\ \/ \E e \in YtdlpErrs :
            Throw(r, handler[r], tmp, <<"yt-dlp fallback failed: ">> \o e,
                  <<"ytdlp_fail", "download_fail">>)
       \/ \E produced \in BOOLEAN :
            LET out == Name(handler[r].id, "mp3")
                dir == IF produced
                       THEN WriteFile(tmp, out, [creator |-> r, kind |-> "ytdlp", data |-> r])
                       ELSE tmp
                ev  == IF produced THEN "ytdlp_ok" ELSE "ytdlp_nofile"
            IN  IF Candidates(dir, handler[r].id) = {}
                THEN Throw(r, handler[r], dir,
                           <<"yt-dlp fallback failed: ", "yt-dlp did not produce an output file">>,
                           <<ev, "download_fail">>)
                ELSE \E found \in Candidates(dir, handler[r].id) :
                        StartConvert(r, handler[r], dir, found, <<ev, "download_ok">>)
    /\ UNCHANGED <<ytdlp, pvars>>

\* mutant of ConvertDone: a conversion error is swallowed and the handler
\* goes on to the transcription call
ConvertDone_Swallows(r) ==
    /\ NoneDone
    /\ handler[r].pc = "convert"
    /\ \E ok \in BOOLEAN :
          /\ ok => handler[r].workingInputPath \in Files(tmp)
          /\ handler' = [handler EXCEPT ![r].pc = "transcribe"]
          /\ tmp' = WriteFile(tmp, handler[r].wavPath,
                              [creator |-> r, kind |-> "wav", data |-> r])
          /\ log' = [log EXCEPT ![r] = @ \o
                        <<IF ok THEN "convert_ok" ELSE "convert_fail", "transcribe">>]
          /\ UNCHANGED <<res, touched>>
    /\ UNCHANGED <<ytdlp, pvars>>

\* await convertToWav(workingInputPath, wavPath) settles
ConvertDone(r) ==
    /\ NoneDone
    /\ handler[r].pc = "convert"
    /\ LET h == handler[r]
       IN \/ /\ h.workingInputPath \in Files(tmp)
             /\ handler' = [handler EXCEPT ![r].pc = "transcribe"]
             /\ tmp' = WriteFile(tmp, h.wavPath,
                                 [creator |-> r, kind |-> "wav",
                                  data |-> tmp[h.workingInputPath].data])
             /\ log' = [log EXCEPT ![r] = @ \o <<"convert_ok", "transcribe">>]
             /\ UNCHANGED <<res, touched>>
          \/ \E e \in ConvertErrs, partial \in BOOLEAN :
                Throw(r, h,
                      IF partial
                      THEN WriteFile(tmp, h.wavPath,
                                     [creator |-> r, kind |-> "wav", data |-> r])
                      ELSE tmp,
                      e, <<"convert_fail">>)
    /\ UNCHANGED <<ytdlp, pvars>>

\* await transcribeWithGroq(wavPath) settles
TranscribeDone(r) ==
    /\ NoneDone
    /\ handler[r].pc = "transcribe"
    /\ LET h == handler[r]
       IN \/ /\ h.wavPath \in Files(tmp)
             /\ Finish(r, h, tmp,
                       <<[status |-> 200, error |-> "", details |-> Null, hint |-> FALSE,
                          text |-> <<"transcript of", tmp[h.wavPath].data>>]>>,
                       <<"transcribe_ok", "respond200">>)
          \/ \E e \in GroqErrs : Throw(r, h, tmp, e, <<"transcribe_fail">>)
    /\ UNCHANGED <<ytdlp, pvars>>

\* line 213: the async handler returns; its locals and its response object
\* are dead.  No step reads another invocation's locals, so closing the
\* invocation commutes with every other step and is taken first.
Close(r) ==
    /\ handler[r].pc = "done"
    /\ handler' = [handler EXCEPT ![r] = Locals("closed")]
    /\ res' = [res EXCEPT ![r] = <<>>]
    /\ log' = [log EXCEPT ![r] = <<>>]
    /\ touched' = [touched EXCEPT ![r] = {}]
    /\ UNCHANGED <<ytdlp, tmp, pvars>>

TranscribeNext ==
    \E r \in Reqs :
        \/ Receive(r)
        \/ GetInfoDone(r)
        \/ StreamDone(r)
        \/ YtdlpDone(r)
        \/ ConvertDone(r)
        \/ TranscribeDone(r)
        \/ Close(r)

\* ===================================================================
\* Part 2: the page (src/unnamed/part_000) and POST /api/qa.
\* ===================================================================

\* ----------------------------------------------------------------- bounds
\* the fetches the page can have in flight at once
MaxInFlight == 2

Slots == 1..MaxInFlight

\* the other client of /api/qa (not the page)
Other == MaxInFlight + 1

Clients == {Other} \cup Slots

\* a text is a sequence of characters: the values typed or received
Texts == {<<>>, <<" ">>, <<"a">>, <<" ", "a", " ">>, <<"a", " ", "a">>}

IsSpace(c) == c = " "

\* String.prototype.trim
RECURSIVE TrimStart(_)
TrimStart(s) ==
    IF s # <<>> /\ IsSpace(Head(s)) THEN TrimStart(Tail(s)) ELSE s

RECURSIVE TrimEnd(_)
TrimEnd(s) ==
    IF s # <<>> /\ IsSpace(s[Len(s)]) THEN TrimEnd(SubSeq(s, 1, Len(s) - 1)) ELSE s

Trim(s) == TrimEnd(TrimStart(s))

\* a field of a JSON body: absent (undefined), or present with a value
Missing == [present |-> FALSE, value |-> <<>>]

Present(v) == [present |-> TRUE, value |-> v]

\* the bodies the other client posts to /api/qa
FieldInputs == {Missing, Present(<<>>), Present(<<" ">>), Present(<<"a">>)}

\* !field for a text field
Falsy(f) == ~f.present \/ f.value = <<>>

NoExchange ==
    [question |-> Missing, transcript |-> Missing, pc |-> "idle", calls |-> 0, status |-> 0]

NoExport ==
    [type |-> "", hasType |-> FALSE, content |-> Missing, filename |-> "",
     hasFilename |-> FALSE, pc |-> "idle", sent |-> 0, status |-> 0, error |-> "",
     contentType |-> "", disposition |-> <<>>, threw |-> FALSE]

PageInit ==
    /\ transcriptEl = [value |-> <<>>, skeleton |-> FALSE]
    /\ loaderHidden = TRUE
    /\ fetches = [s \in Slots |-> "idle"]
    /\ qa = [c \in Clients |-> NoExchange]
    /\ export = NoExport

Init == TranscribeInit /\ PageInit

\* the slot a new fetch takes
FreeSlots == {s \in Slots : fetches[s] = "idle"}

NewSlot == CHOOSE s \in FreeSlots : \A t \in FreeSlots : s <= t

\* lines 122-126 and 157-161: the click handler up to its fetch
StartTranscribe(kind) ==
    /\ FreeSlots # {}
    /\ transcriptEl' = [value |-> <<>>, skeleton |-> TRUE]
    /\ loaderHidden' = FALSE
    /\ fetches' = [fetches EXCEPT ![NewSlot] = kind]
    /\ UNCHANGED <<qa, export>>

\* lines 133-146 and 169-182: the handler after its fetch, finally included
SettleTranscribe(s) ==
    \E ok \in BOOLEAN, text \in Texts :
        /\ ~ok => text = <<>>
        /\ transcriptEl' = [value |-> IF ok THEN text ELSE transcriptEl.value,
                            skeleton |-> FALSE]
        /\ loaderHidden' = TRUE
        /\ fetches' = [fetches EXCEPT ![s] = "idle"]
        /\ UNCHANGED <<qa, export>>

\* click on transcribeYoutubeBtn with `input` in the URL box
ClickTranscribeYoutube ==
    /\ \E input \in Texts :
          IF Trim(input) = <<>>
          THEN UNCHANGED pvars
          ELSE StartTranscribe("youtube")
    /\ UNCHANGED tvars

\* the fetch of a transcribeYoutubeBtn click settles
YoutubeSettled(s) ==
    /\ fetches[s] = "youtube"
    /\ SettleTranscribe(s)
    /\ UNCHANGED tvars

\* click on uploadTranscribeBtn, with or without a chosen file
ClickUploadTranscribe ==
    /\ \E file \in BOOLEAN :
          IF ~file
          THEN UNCHANGED pvars
          ELSE StartTranscribe("upload")
    /\ UNCHANGED tvars

\* the fetch of an uploadTranscribeBtn click settles
UploadSettled(s) ==
    /\ fetches[s] = "upload"
    /\ SettleTranscribe(s)
    /\ UNCHANGED tvars

\* click on askBtn with `input` in the question box
ClickAsk ==
    /\ \E input \in Texts :
          LET transcript == Trim(transcriptEl.value)
              question == Trim(input)
          IN  IF transcript = <<>> \/ question = <<>>
              THEN UNCHANGED pvars
              ELSE /\ FreeSlots # {}
                   /\ loaderHidden' = FALSE
                   /\ fetches' = [fetches EXCEPT ![NewSlot] = "ask"]
                   /\ qa' = [qa EXCEPT ![NewSlot] =
                                [NoExchange EXCEPT !.question = Present(question),
                                                   !.transcript = Present(transcript),
                                                   !.pc = "sent"]]
                   /\ UNCHANGED <<transcriptEl, export>>
    /\ UNCHANGED tvars

\* the fetch of an askBtn click settles: the answer is shown, finally hideLoader
AskSettled(s) ==
    /\ fetches[s] = "ask"
    /\ qa[s].pc = "responded"
    /\ loaderHidden' = TRUE
    /\ fetches' = [fetches EXCEPT ![s] = "idle"]
    /\ qa' = [qa EXCEPT ![s] = NoExchange]
    /\ UNCHANGED <<transcriptEl, export, tvars>>

\* mutant of QaRejects: only the question is checked
QaRejects_QuestionOnly(question, transcript) == Falsy(question)

\* line 219: !question || !transcript
QaRejects(question, transcript) == Falsy(question) \/ Falsy(transcript)

\* the other client posts a body to /api/qa
QaDirect ==
    /\ qa[Other].pc \in {"idle", "responded"}
    /\ \E q, t \in FieldInputs :
          qa' = [qa EXCEPT ![Other] =
                    [NoExchange EXCEPT !.question = q, !.transcript = t, !.pc = "sent"]]
    /\ UNCHANGED <<transcriptEl, loaderHidden, fetches, export, tvars>>

\* the /api/qa handler runs to its await, or to its 400
QaReceive(c) ==
    /\ qa[c].pc = "sent"
    /\ qa' = [qa EXCEPT ![c] =
                 IF QaRejects(@.question, @.transcript)
                 THEN [@ EXCEPT !.pc = "responded", !.status = 400]
                 ELSE [@ EXCEPT !.pc = "chat", !.calls = @ + 1]]
    /\ UNCHANGED <<transcriptEl, loaderHidden, fetches, export, tvars>>

\* await groq.chat.completions.create settles: 200, or the catch's 500
QaChatSettled(c) ==
    /\ qa[c].pc = "chat"
    /\ \E ok \in BOOLEAN :
          qa' = [qa EXCEPT ![c] =
                    [@ EXCEPT !.pc = "responded", !.status = IF ok THEN 200 ELSE 500]]
    /\ UNCHANGED <<transcriptEl, loaderHidden, fetches, export, tvars>>

PageNext ==
    \/ ClickTranscribeYoutube
    \/ ClickUploadTranscribe
    \/ ClickAsk
    \/ \E s \in Slots :
          \/ YoutubeSettled(s)
          \/ UploadSettled(s)
          \/ AskSettled(s)
          \/ QaReceive(s)
          \/ QaChatSettled(s)

QaNext ==
    \/ ClickTranscribeYoutube
    \/ ClickAsk
    \/ QaDirect
    \/ \E s \in Slots :
          \/ YoutubeSettled(s)
          \/ AskSettled(s)
    \/ \E c \in Clients :
          \/ QaReceive(c)
          \/ QaChatSettled(c)

\* ===================================================================
\* Part 3: POST /api/export and the page's download button.
\* ===================================================================

\* body.type and body.filename as sent ("" stands for the empty string)
TypeInputs == {"", "txt", "json", "csv", "pdf", "docx", "xml"}

FilenameInputs == {"", "transcript", "notes"}

\* the options of the page's formatSelect
FormatOptions == {"txt", "json", "csv", "pdf", "docx"}

\* a request with these body fields is posted to /api/export
ExportRequest(hasType, type, content, hasFilename, filename) ==
    [NoExport EXCEPT !.hasType = hasType, !.type = type, !.content = content,
                     !.hasFilename = hasFilename, !.filename = filename,
                     !.pc = "sent"]

\* another client posts a body to /api/export
ExportDirect ==
    /\ export.pc \in {"idle", "responded"}
    /\ \E hasType, hasFilename \in BOOLEAN, type \in TypeInputs,
          filename \in FilenameInputs, content \in FieldInputs :
          /\ ~hasType => type = ""
          /\ ~hasFilename => filename = ""
          /\ export' = ExportRequest(hasType, type, content, hasFilename, filename)
    /\ UNCHANGED <<transcriptEl, loaderHidden, fetches, qa, tvars>>

\* click on downloadTranscriptBtn with `type` selected
ClickDownloadTranscript ==
    /\ export.pc \in {"idle", "responded"}
    /\ \E type \in FormatOptions :
          LET text == Trim(transcriptEl.value)
          IN  IF text = <<>>
              THEN UNCHANGED export
              ELSE export' = ExportRequest(TRUE, type, Present(text), TRUE, "transcript")
    /\ UNCHANGED <<transcriptEl, loaderHidden, fetches, qa, tvars>>

\* mutant of Base: the default name is forgotten
Base_NoDefault(hasFilename, filename) == filename

\* line 255: filename || "export"
Base(hasFilename, filename) ==
    IF ~hasFilename \/ filename = "" THEN "export" ELSE filename

\* lines 257-288: the Content-Type header each branch sets
ContentType(type) ==
    CASE type = "txt" -> "text/plain; charset=utf-8"
      [] type = "json" -> "application/json"
      [] type = "csv" -> "text/csv; charset=utf-8"
      [] type = "pdf" -> "application/pdf"
      [] type = "docx" ->
            "application/vnd.openxmlformats-officedocument.wordprocessingml.document"

\* lines 258-288: `attachment; filename=${base}.<type>`
Disposition(base, type) == <<"attachment; filename=", base, ".", type>>

\* the /api/export handler on request x; throws says whether the document
\* library (pdfkit, docx) throws
ExportResponse(x, throws) ==
    LET base == Base(x.hasFilename, x.filename)
        answer(status, error, ctype, disp) ==
            [x EXCEPT !.pc = "responded", !.sent = @ + 1, !.status = status,
                      !.error = error, !.contentType = ctype, !.disposition = disp,
                      !.threw = throws]
    IN  IF ~x.hasType \/ x.type = "" \/ Falsy(x.content)
        THEN answer(400, "Missing 'type' or 'content'", "application/json", <<>>)
        ELSE IF x.type \in {"txt", "json", "csv"}
        THEN answer(200, "", ContentType(x.type), Disposition(base, x.type))
        ELSE IF x.type = "pdf"
        THEN IF throws
             THEN answer(500, "Export failed", "application/json", Disposition(base, "pdf"))
             ELSE answer(200, "", ContentType("pdf"), Disposition(base, "pdf"))
        ELSE IF x.type = "docx"
        THEN IF throws
             THEN answer(500, "Export failed", "application/json", <<>>)
             ELSE answer(200, "", ContentType("docx"), Disposition(base, "docx"))
        ELSE answer(400, "Unsupported type", "application/json", <<>>)

\* the /api/export handler runs
ExportHandle ==
    /\ export.pc = "sent"
    /\ \E throws \in BOOLEAN :
          /\ throws => (export.hasType /\ export.type \in {"pdf", "docx"}
                        /\ ~Falsy(export.content))
          /\ export' = ExportResponse(export, throws)
    /\ UNCHANGED <<transcriptEl, loaderHidden, fetches, qa, tvars>>

ExportNext ==
    \/ ClickTranscribeYoutube
    \/ \E s \in Slots : YoutubeSettled(s)
    \/ ClickDownloadTranscript
    \/ ExportDirect
    \/ ExportHandle

Next == TranscribeNext

\* POST /api/transcribe under concurrent requests
Spec == Init /\ [][Next]_vars

\* the server was started with youtube-dl-exec installed
InitWithYtdlp == Init /\ ytdlp

\* the page and the /api/qa requests it sends
SpecPage == InitWithYtdlp /\ [][PageNext]_vars

\* the page, /api/qa and its other client
SpecQA == InitWithYtdlp /\ [][QaNext]_vars

\* /api/export, its other client and the page's download button
SpecExport == InitWithYtdlp /\ [][ExportNext]_vars

\* ------------------------------------------------ claims: /api/transcribe
\* e occurs in s
Has(s, e) == \E i \in 1..Len(s) : s[i] = e

\* e occurs in s at most once
AtMostOnce(s, e) == \A i, j \in 1..Len(s) : (s[i] = e /\ s[j] = e) => i = j

\* e occurs in s exactly once
Once(s, e) == Has(s, e) /\ AtMostOnce(s, e)

\* a occurs in s, with no b before it
Before(s, a, b) == \E i \in 1..Len(s) : s[i] = a /\ \A j \in 1..i : s[j] # b

\* a occurs in s and the next event is b
Then(s, a, b) == \E i \in 1..(Len(s) - 1) : s[i] = a /\ s[i + 1] = b

FailEvents == {"download_fail", "convert_fail", "transcribe_fail"}

FilesOf(r) == {f \in Files(tmp) : tmp[f].creator = r}

\* C1 (as claimed): once the cleanup of a request has run, no file created
\* for that request remains in tmp.  A file whose unlink the file system
\* refused is excused, so the violation does not rest on a failing unlink.
C1_NoIntermediateFileRemains ==
    \A r \in Reqs :
        (handler[r].pc = "done" /\ ~Has(log[r], "unlinkError")) => FilesOf(r) = {}

\* C2 (as claimed): after a primary failure on the decipher signature with
\* yt-dlp available, yt-dlp is attempted next; if it produced its output the
\* download returns that output, if it failed the error is prefixed
\* "yt-dlp fallback failed: ".
C2_FallbackContract ==
    \A r \in Reqs :
        (ytdlp /\ Has(log[r], "primary_fail_decipher")) =>
            /\ Then(log[r], "primary_fail_decipher", "ytdlp")
            /\ Has(log[r], "ytdlp_ok") =>
                  /\ Has(log[r], "download_ok")
                  /\ handler[r].workingInputPath = Name(handler[r].id, "mp3")
            /\ Has(log[r], "ytdlp_fail") =>
                  /\ Len(res[r]) = 1
                  /\ res[r][1].status = 500
                  /\ StartsWith(res[r][1].details, <<"yt-dlp fallback failed: ">>)

\* C3 (as claimed): yt-dlp is attempted only after the primary failed on the
\* decipher signature.
C3_OnlyOnKnownPattern ==
    \A r \in Reqs :
        Has(log[r], "ytdlp") => Before(log[r], "primary_fail_decipher", "ytdlp")

\* C3 (amended): yt-dlp is attempted only when it is available and after the
\* primary was attempted and failed, on whatever message; never before or
\* instead of the primary, and at most once per request.
C3_OnlyAfterPrimaryFailure ==
    \A r \in Reqs :
        Has(log[r], "ytdlp") =>
            /\ ytdlp
            /\ Once(log[r], "ytdlp")
            /\ Once(log[r], "primary")
            /\ Before(log[r], "primary", "ytdlp")
            /\ \E f \in {"primary_fail_decipher", "primary_fail_other"} :
                  Then(log[r], f, "ytdlp")
            /\ ~Has(log[r], "primary_ok")

\* C3 witness: yt-dlp was attempted after a primary failure on another message
C3_Witness ==
    \E r \in Reqs :
        Before(log[r], "primary_fail_other", "ytdlp") /\ Has(log[r], "ytdlp_ok")

\* C4: input -> convert -> transcribe -> respond, each at most once; convert
\* only after an input file was obtained, transcribe only after convert
\* succeeded, 200 only after transcribe succeeded, nothing after a failure.
C4_StageOrder ==
    \A r \in Reqs :
        LET l == log[r] IN
        /\ \A e \in {"download", "convert", "transcribe"} : AtMostOnce(l, e)
        /\ Has(l, "convert") =>
              /\ handler[r].workingInputPath # Null
              /\ ~(Has(l, "input_ok") /\ Has(l, "download_ok"))
              /\ \E e \in {"input_ok", "download_ok"} :
                    Once(l, e) /\ Before(l, e, "convert")
        /\ Has(l, "transcribe") => Before(l, "convert_ok", "transcribe")
        /\ Has(l, "respond200") => Before(l, "transcribe_ok", "respond200")
        /\ \A i \in 1..Len(l) : l[i] \in FailEvents =>
              \A j \in (i + 1)..Len(l) :
                  l[j] \in {"respond500", "unlinkError", "cleanup"}

\* C4 witness: a request went through all stages and was answered 200
C4_Witness ==
    \E r \in Reqs : handler[r].pc = "done" /\ Has(log[r], "respond200")
                    /\ Has(log[r], "download_ok")

\* the messages downloadYoutube can throw
DownloadFailure(details) ==
    \/ details = <<"Invalid YouTube URL">>
    \/ StartsWith(details, <<"YouTube download failed: ">>)
    \/ StartsWith(details, <<"yt-dlp fallback failed: ">>)
    \/ StartsWith(details, <<"ytdl-core failed">>)

\* C5: exactly one response per request, sent by the time the handler is
\* over: 400 iff neither URL nor file (and then no stage ran); 500 with error
\* "Transcription failed" and the failing stage's message iff a stage failed;
\* 200 with the text only when all stages succeeded; a failing unlink changes
\* none of this.
C5_OneResponse ==
    \A r \in Reqs :
        LET l == log[r]
            h == handler[r] IN
        /\ Len(res[r]) <= 1
        /\ h.pc = "done" =>
            /\ Len(res[r]) = 1
            /\ LET a == res[r][1] IN
               /\ a.status \in {200, 400, 500}
               /\ a.status = 400 <=> (h.youtubeUrl = "" /\ h.uploadedFilePath = Null)
               /\ a.status = 400 =>
                     \A e \in {"download", "convert", "transcribe"} : ~Has(l, e)
               /\ a.status = 500 <=> \E f \in FailEvents : Has(l, f)
               /\ a.status = 500 =>
                     /\ a.error = "Transcription failed"
                     /\ Has(l, "download_fail") => DownloadFailure(a.details)
                     /\ Has(l, "convert_fail") => a.details \in ConvertErrs
                     /\ Has(l, "transcribe_fail") => a.details \in GroqErrs
               /\ a.status = 200 =>
                     /\ Has(l, "convert_ok") /\ Has(l, "transcribe_ok")
                     /\ Has(l, "input_ok") \/ Has(l, "download_ok")
                     /\ a.text # Null

\* C5 witness: a stage failed, an unlink failed too, and the answer is the 500
C5_Witness ==
    \E r \in Reqs :
        /\ handler[r].pc = "done"
        /\ Has(log[r], "transcribe_fail") /\ Has(log[r], "unlinkError")
        /\ res[r] = <<ErrorResponse(<<"401 invalid api key">>)>>

\* C8 (as claimed): a download that succeeds through yt-dlp returns the file
\* yt-dlp produced, never the file the primary attempt left behind.
C8_ReturnsSecondaryOutput ==
    \A r \in Reqs :
        (Has(log[r], "ytdlp_ok") /\ Has(log[r], "download_ok")) =>
            /\ handler[r].workingInputPath # Name(handler[r].id, "mp4")
            /\ handler[r].workingInputPath \in Files(tmp) =>
                  tmp[handler[r].workingInputPath].kind = "ytdlp"

\* C9: whatever the interleaving, a request selects, converts, transcribes
\* and deletes only files created for itself, its fallback lookup matches
\* only its own files, and its transcript comes from its own input.
C9_OwnFilesOnly ==
    \A r \in Reqs :
        /\ touched[r] \subseteq {r}
        /\ handler[r].pc \notin {"idle", "closed"} =>
              \A f \in Candidates(tmp, handler[r].id) : tmp[f].creator = r
        /\ \A f \in FilesOf(r) : tmp[f].data = r
        /\ \A i \in 1..Len(res[r]) :
              res[r][i].status = 200 => res[r][i].text = <<"transcript of", r>>

\* C9 witness: a request is answered 200 from a yt-dlp download while another
\* request, also on the fallback path, is in flight with its files in tmp
C9_Witness ==
    \E r, q \in Reqs :
        /\ r # q
        /\ handler[r].pc = "done" /\ Has(log[r], "ytdlp_ok") /\ Has(log[r], "respond200")
        /\ handler[q].pc \in {"ytdlp", "convert", "transcribe"}
        /\ FilesOf(q) # {}

\* ------------------------------------------------------ claims: the page
InFlight == {s \in Slots : fetches[s] # "idle"}

\* C6: the page sends /api/qa only with a transcript and a question that are
\* non-empty after trimming; the server answers 400 without a chat-completion
\* call when question or transcript is missing or empty; at most one
\* chat-completion call per request, and none before the check.
C6_NonEmptyBeforeCall ==
    \A c \in Clients :
        LET x == qa[c]
            rejected == ~x.question.present \/ x.question.value = <<>>
                        \/ ~x.transcript.present \/ x.transcript.value = <<>>
        IN  /\ (c \in Slots /\ x.pc # "idle") =>
                  /\ x.question.present /\ Trim(x.question.value) # <<>>
                  /\ x.transcript.present /\ Trim(x.transcript.value) # <<>>
            /\ x.calls <= 1
            /\ x.pc = "sent" => x.calls = 0
            /\ rejected => x.calls = 0 /\ x.pc # "chat"
            /\ (rejected /\ x.pc = "responded") => x.status = 400
            /\ (~rejected /\ x.pc = "responded") => (x.calls = 1 /\ x.status \in {200, 500})

\* C6 witness: the server has answered 400 to a body whose question is set
\* and whose transcript is empty, while a page request is at the chat call
C6_Witness ==
    /\ qa[Other].pc = "responded" /\ qa[Other].status = 400
    /\ ~Falsy(qa[Other].question) /\ qa[Other].transcript = Present(<<>>)
    /\ \E s \in Slots : qa[s].pc = "chat" /\ qa[s].calls = 1

\* C7: an export request gets exactly one response: 400 when type or content
\* is missing or empty; for txt, json, csv, pdf, docx an attachment named
\* "<filename or export>.<type>" with that type's Content-Type (or 500 when
\* serialization throws); 400 "Unsupported type" for any other type.
C7_ExportOutcome ==
    LET x == export
        name == IF x.hasFilename /\ x.filename # "" THEN x.filename ELSE "export"
        mime == [t \in FormatOptions |->
                    IF t = "txt" THEN "text/plain; charset=utf-8"
                    ELSE IF t = "json" THEN "application/json"
                    ELSE IF t = "csv" THEN "text/csv; charset=utf-8"
                    ELSE IF t = "pdf" THEN "application/pdf"
                    ELSE "application/vnd.openxmlformats-officedocument.wordprocessingml.document"]
    IN  /\ x.sent <= 1
        /\ x.pc = "responded" =>
              /\ x.sent = 1
              /\ IF ~x.hasType \/ x.type = "" \/ ~x.content.present \/ x.content.value = <<>>
                 THEN x.status = 400 /\ x.error = "Missing 'type' or 'content'"
                 ELSE IF x.type \in FormatOptions
                 THEN \/ /\ x.status = 200
                         /\ x.disposition = <<"attachment; filename=", name, ".", x.type>>
                         /\ x.contentType = mime[x.type]
                      \/ x.status = 500 /\ x.threw
                 ELSE x.status = 400 /\ x.error = "Unsupported type"

\* C7 witness: a docx export without a filename is answered as export.docx
C7_Witness ==
    /\ export.pc = "responded" /\ export.status = 200
    /\ export.type = "docx" /\ ~export.hasFilename
    /\ export.disposition = <<"attachment; filename=", "export", ".", "docx">>

\* C10 (as claimed): while a started request is in flight the loader is
\* visible, and the skeleton is shown while a transcribe request is in
\* flight; with nothing in flight the loader is hidden and the skeleton gone.
C10_LoaderWhileInFlight ==
    /\ InFlight # {} => ~loaderHidden
    /\ (\E s \in Slots : fetches[s] \in {"youtube", "upload"}) => transcriptEl.skeleton
    /\ InFlight = {} => (loaderHidden /\ ~transcriptEl.skeleton)


====
